---- MODULE Spec2Model ----
(***************************************************************************)
(* Model of the Kawakubo design generator's backend route                  *)
(* (app/api/generate-design/route.ts): the prompt builder                  *)
(* createPromptWithReference and the request handler POST.                 *)
(*                                                                         *)
(* JavaScript runs a handler to completion between two awaits, so POST is  *)
(* three atomic steps: from entry to `await req.json()`, from there to     *)
(* `await openai.images.generate(...)`, and from there to the response.    *)
(* Logging (console.log / console.error) is not modelled.                  *)
(***************************************************************************)
EXTENDS Integers, Sequences, FiniteSets, TLC

VARIABLES
    apiKey,     \* process.env['OPENAI_API_KEY'], a JavaScript value
    pc,         \* pc[r]: where request r's POST invocation stands
    body,       \* body[r]: the request body POST was given
    prompts,    \* prompts[r]: the prompts built for r, in order
    calls,      \* calls[r]: the parameters of r's openai.images.generate calls
    result,     \* result[r]: how r's provider calls settled, in order
    resp,       \* resp[r]: the responses POST returned for r, in order
    bArgs,      \* arguments of a direct createPromptWithReference application
    bOut,       \* the strings that application returned
    designDescription,  \* Home's state: the description typed
    referenceImage,     \* Home's state: null or the data URL of the image
    loading,            \* Home's state
    designs,            \* Home's state: null or the list of designs shown
    error,              \* Home's state: null or the message shown
    fetchPc,    \* where the running handleSubmit stands
    httpResp,   \* the response handleSubmit's fetch resolved to, if any
    sent,       \* the body of the request handleSubmit sent, if any
    readers,    \* the number of FileReaders still reading
    dirty       \* an image-upload event occurred since handleSubmit started

vars ==
    <<apiKey, pc, body, prompts, calls, result, resp, bArgs, bOut,
      designDescription, referenceImage, loading, designs, error, fetchPc,
      httpResp, sent, readers, dirty>>

clientVars ==
    <<designDescription, referenceImage, loading, designs, error, fetchPc,
      httpResp, sent, readers, dirty>>

handlerVars == <<apiKey, pc, body, prompts, calls, result, resp>>

builderVars == <<bArgs, bOut>>

(***************************************************************************)
(* Bounds                                                                  *)
(***************************************************************************)
NumReqs == 2

MaxDesigns == 2

MaxDescLen == 3

MaxReaders == 1

NumLiveReqs == 1

Reqs == 1..NumReqs

(***************************************************************************)
(* Strings                                                                 *)
(***************************************************************************)
\* String.prototype.includes: sub occurs in s as a contiguous substring.
Includes(s, sub) ==
    \E i \in 1..(Len(s) - Len(sub) + 1) : SubSeq(s, i, i + Len(sub) - 1) = sub

\* The white space String.prototype.trim strips, restricted to the
\* characters that occur in the modelled inputs.
WhiteSpace == {" ", "\t", "\n", "\r"}

RECURSIVE TrimStart(_)
TrimStart(s) ==
    IF Len(s) > 0 /\ SubSeq(s, 1, 1) \in WhiteSpace
    THEN TrimStart(SubSeq(s, 2, Len(s)))
    ELSE s

RECURSIVE TrimEnd(_)
TrimEnd(s) ==
    IF Len(s) > 0 /\ SubSeq(s, Len(s), Len(s)) \in WhiteSpace
    THEN TrimEnd(SubSeq(s, 1, Len(s) - 1))
    ELSE s

\* String.prototype.trim
Trim(s) == TrimEnd(TrimStart(s))

(***************************************************************************)
(* JavaScript values                                                       *)
(***************************************************************************)
Undefined == [t |-> "undefined"]

Null == [t |-> "null"]

Num(n) == [t |-> "number", n |-> n]

Str(s) == [t |-> "string", s |-> s]

\* An object; a property the JSON text does not have reads as Undefined.
Obj(descr, image) ==
    [t |-> "object", description |-> descr, referenceImage |-> image]

\* ToBoolean, as applied by `!x` and `!!x`.
Truthy(v) ==
    CASE v.t = "undefined" -> FALSE
      [] v.t = "null"      -> FALSE
      [] v.t = "number"    -> v.n # 0
      [] v.t = "string"    -> v.s # ""
      [] v.t = "object"    -> TRUE

\* v.description / v.referenceImage of a value that is not null: numbers and
\* strings are boxed and have neither property.
Description(v) == IF v.t = "object" THEN v.description ELSE Undefined

ReferenceImage(v) == IF v.t = "object" THEN v.referenceImage ELSE Undefined

(***************************************************************************)
(* Prompt builder: createPromptWithReference                               *)
(***************************************************************************)
BasePrefix ==
    "Create a new clothing item based on this description: "

BaseSuffix ==
    "."

ReferenceBlock ==
    "\n"
    \o "    Use the reference image as inspiration for:\n"
    \o "    - Overall style and aesthetic\n"
    \o "    - Similar silhouette and proportions\n"
    \o "    - Comparable fabric texture and draping\n"
    \o "    - Related design elements and details\n"
    \o "    - Similar photography style\n"
    \o "\n"
    \o "    However, create a unique piece that combines these elements with the specific requirements from the description.\n"
    \o "    "

PhotographyBlock ==
    "\n"
    \o "  Present the final design as a professional product photograph:\n"
    \o "  - Clean white or light gray background\n"
    \o "  - Studio-quality lighting to highlight fabric texture and details\n"
    \o "  - Sharp, clear, high-resolution image\n"
    \o "  - Professional fashion photography style\n"
    \o "  - Multiple angles if possible\n"
    \o "  - Photorealistic rendering\n"
    \o "  - HD quality\n"
    \o "  The final image should look like a high-end fashion e-commerce product photo."

\* Mutant: the description is trimmed before it is embedded.
createPromptTrimmed(description, hasReferenceImage) ==
    BasePrefix \o Trim(description) \o BaseSuffix
        \o (IF hasReferenceImage THEN ReferenceBlock ELSE "")
        \o PhotographyBlock

\* Mutant: the reference block is appended whatever the flag.
createPromptAlwaysReference(description, hasReferenceImage) ==
    BasePrefix \o description \o BaseSuffix
        \o ReferenceBlock
        \o PhotographyBlock

createPromptWithReference(description, hasReferenceImage) ==
    BasePrefix \o description \o BaseSuffix
        \o (IF hasReferenceImage THEN ReferenceBlock ELSE "")
        \o PhotographyBlock

(***************************************************************************)
(* Request handler: POST                                                   *)
(***************************************************************************)
\* NextResponse.json(payload, {status}); the status defaults to 200.
Json(payload, status) == [status |-> status, json |-> payload]

ConfigurationMissing ==
    Json([error |-> "OpenAI API key not configured in Replit secrets"], 500)

\* Mutant: the parse failure answered as a server error.
InvalidRequestBodyAs500 == Json([error |-> "Invalid request body"], 500)

InvalidRequestBody == Json([error |-> "Invalid request body"], 400)

DescriptionRequired == Json([error |-> "Description is required"], 400)

RateLimited ==
    Json([error |-> "Rate limit exceeded. Please try again later."], 429)

ContentPolicyViolation ==
    Json([error |-> "Content policy violation. Please modify your request."],
         400)

ProviderError == Json([error |-> "Error generating image with OpenAI"], 500)

Unexpected == Json([error |-> "An unexpected error occurred"], 500)

\* A value thrown inside the inner try: an instance of Error with its
\* message, or some other value, of which the handler reads nothing.
Error(message) == [k |-> "error", message |-> message]

NonError == [k |-> "nonerror"]

\* What openai.images.generate resolves to: data is absent or a list.
Response(hasData, data) == [k |-> "response", hasData |-> hasData, data |-> data]

\* Mutant: only an unset variable counts as missing.
KeyMissingUnsetOnly == apiKey.t = "undefined"

\* `!process.env['OPENAI_API_KEY']`
KeyMissing == ~Truthy(apiKey)

\* The parameters of the one call the handler makes.
GenerateParams(prompt) ==
    [model |-> "dall-e-3", prompt |-> prompt, n |-> 1, size |-> "1024x1024",
     quality |-> "hd", style |-> "natural"]

\* Mutant: the description test without the trim.
ValidateNoTrim(v) ==
    IF v.t = "null" THEN "throw"
    ELSE IF ~Truthy(Description(v)) THEN "reject"
    ELSE "accept"

\* Lines 64-71 on the parsed body v: "throw" when the destructuring of null
\* or the call of trim on a value without it raises a TypeError, "reject"
\* when the description test answers 400, "accept" otherwise.
Validate(v) ==
    IF v.t = "null" THEN "throw"
    ELSE IF ~Truthy(Description(v)) THEN "reject"
    ELSE IF Description(v).t # "string" THEN "throw"
    ELSE IF Len(Trim(Description(v).s)) = 0 THEN "reject"
    ELSE "accept"

\* Mutant: any referenceImage other than null counts as present.
HasReferenceImageNonNull(v) == ReferenceImage(v).t # "null"

\* `!!referenceImage`, line 73.
HasReferenceImage(v) == Truthy(ReferenceImage(v))

\* Mutant: the reference image is appended to the prompt.
BuildPromptWithImage(v) ==
    createPromptWithReference(Description(v).s, HasReferenceImage(v))
        \o (IF ReferenceImage(v).t = "string" THEN ReferenceImage(v).s ELSE "")

\* Line 73 on an accepted body v.
BuildPrompt(v) ==
    createPromptWithReference(Description(v).s, HasReferenceImage(v))

\* Mutant: only an absent data field counts as no images.
NoImagesAbsentOnly(response) == ~response.hasData

\* `!response.data || response.data.length === 0`
NoImages(response) == ~response.hasData \/ Len(response.data) = 0

\* Mutant: the content-policy test comes first.
OpenAIErrorResponsePolicyFirst(openaiError) ==
    IF openaiError.k = "error"
       /\ Includes(openaiError.message, "content policy")
    THEN ContentPolicyViolation
    ELSE IF openaiError.k = "error"
            /\ Includes(openaiError.message, "rate limit")
    THEN RateLimited
    ELSE ProviderError

\* Mutant: the content-policy test is missing.
OpenAIErrorResponseNoPolicy(openaiError) ==
    IF openaiError.k = "error" /\ Includes(openaiError.message, "rate limit")
    THEN RateLimited
    ELSE ProviderError

\* Mutant: a thrown value that is not an Error is thrown on to the outer catch.
OpenAIErrorResponseRethrow(openaiError) ==
    IF openaiError.k # "error" THEN Unexpected
    ELSE IF Includes(openaiError.message, "rate limit") THEN RateLimited
    ELSE IF Includes(openaiError.message, "content policy")
    THEN ContentPolicyViolation
    ELSE ProviderError

\* The catch (openaiError) block, lines 96-118.
OpenAIErrorResponse(openaiError) ==
    IF openaiError.k = "error" /\ Includes(openaiError.message, "rate limit")
    THEN RateLimited
    ELSE IF openaiError.k = "error"
            /\ Includes(openaiError.message, "content policy")
    THEN ContentPolicyViolation
    ELSE ProviderError

\* Mutant: the response is passed on without the no-images test.
SuccessResponseUnchecked(response) ==
    Json([designs |-> response.data], 200)

\* Mutant: only the first image is passed on.
SuccessResponseFirstOnly(response) ==
    IF NoImages(response)
    THEN OpenAIErrorResponse(Error("No images generated"))
    ELSE Json([designs |-> <<Head(response.data)>>], 200)

\* The body of the inner try once the call has resolved, lines 86-94.
SuccessResponse(response) ==
    IF NoImages(response)
    THEN OpenAIErrorResponse(Error("No images generated"))
    ELSE Json([designs |-> response.data], 200)

(***************************************************************************)
(* Inputs                                                                  *)
(***************************************************************************)
ApiKeys == {Undefined, Str(""), Str("sk-test")}

\* A body req.json() rejects, and a body it parses to the value v.
NotJson == [json |-> FALSE]

JsonBody(v) == [json |-> TRUE, value |-> v]

NoBody == [json |-> FALSE, none |-> TRUE]

BlankDescriptions == {Undefined, Str(""), Str(" \t\n")}

GoodDescriptions == {Str(" red dress ")}

ReferenceImages ==
    {Null, Str(""), Str("data:image/png;base64,AAAA"),
     Str("data:image/png;base64,BBBB")}

Bodies ==
    {NotJson, JsonBody(Null), JsonBody(Num(7)), JsonBody(Obj(Num(5), Null))}
    \cup {JsonBody(Obj(d, i)) :
            d \in BlankDescriptions,
            i \in {Null, Str("data:image/png;base64,AAAA")}}
    \cup {JsonBody(Obj(d, i)) : d \in GoodDescriptions, i \in ReferenceImages}

Designs ==
    {[url |-> "https://x/1.png"],
     [url |-> "https://x/2.png", revised_prompt |-> "a red dress, studio"]}

\* The lists of n designs in which no design directly follows itself.
RECURSIVE SeqsOfLen(_, _)
SeqsOfLen(S, n) ==
    IF n = 0 THEN {<<>>}
    ELSE {t \in {Append(s, x) : s \in SeqsOfLen(S, n - 1), x \in S} :
            n = 1 \/ t[n] # t[n - 1]}

DesignLists == UNION {SeqsOfLen(Designs, n) : n \in 0..MaxDesigns}

ErrorMessages ==
    {"429 rate limit reached",
     "rejected by the content policy",
     "content policy check hit a rate limit",
     "Rate limit reached for images per minute",
     "connect ETIMEDOUT"}

\* How the awaited call can settle.
Outcomes ==
    {Response(TRUE, d) : d \in DesignLists}
    \cup {Response(FALSE, <<>>)}
    \cup {Error(m) : m \in ErrorMessages}
    \cup {NonError}

Alphabet == {"z", " ", "\n", "."}

RECURSIVE StringsOfLen(_)
StringsOfLen(n) ==
    IF n = 0 THEN {""}
    ELSE {s \o c : s \in StringsOfLen(n - 1), c \in Alphabet}

\* Descriptions that quote the builder's own reference block, whole or
\* short of its last character.
QuotingDescriptions ==
    {ReferenceBlock,
     "z" \o ReferenceBlock \o "z",
     SubSeq(ReferenceBlock, 1, Len(ReferenceBlock) - 1)}

BuilderDescriptions ==
    UNION {StringsOfLen(n) : n \in 0..MaxDescLen} \cup QuotingDescriptions

NoArgs == [description |-> "", hasReferenceImage |-> FALSE]

\* Home as first rendered: the initial values of its useState calls, no
\* submission running and no file being read.
ClientIdle ==
    /\ designDescription = ""
    /\ referenceImage = Null
    /\ loading = FALSE
    /\ designs = Null
    /\ error = Null
    /\ fetchPc = "idle"
    /\ httpResp = <<>>
    /\ sent = <<>>
    /\ readers = 0
    /\ dirty = FALSE

(***************************************************************************)
(* The handler as a state machine                                          *)
(***************************************************************************)
Init ==
    /\ apiKey \in ApiKeys
    /\ pc = [r \in Reqs |-> "idle"]
    /\ body = [r \in Reqs |-> NoBody]
    /\ prompts = [r \in Reqs |-> <<>>]
    /\ calls = [r \in Reqs |-> <<>>]
    /\ result = [r \in Reqs |-> <<>>]
    /\ resp = [r \in Reqs |-> <<>>]
    /\ bArgs = NoArgs
    /\ bOut = <<>>
    /\ ClientIdle

\* `return NextResponse.json(...)`: r's invocation ends with response x.
Return(r, x) ==
    /\ resp' = [resp EXCEPT ![r] = Append(@, x)]
    /\ pc' = [pc EXCEPT ![r] = "done"]

\* Mutant: the body is kept in a variable of the module, shared by requests.
POSTSharedBody(r, b) ==
    /\ pc[r] = "idle"
    /\ body' = [q \in Reqs |-> b]
    /\ IF KeyMissing
       THEN Return(r, ConfigurationMissing)
       ELSE /\ pc' = [pc EXCEPT ![r] = "json"]
            /\ UNCHANGED resp
    /\ UNCHANGED <<apiKey, prompts, calls, result, builderVars, clientVars>>

\* Lines 43-55: the credential check, then req.json() is awaited.
POST(r, b) ==
    /\ pc[r] = "idle"
    /\ body' = [body EXCEPT ![r] = b]
    /\ IF KeyMissing
       THEN Return(r, ConfigurationMissing)
       ELSE /\ pc' = [pc EXCEPT ![r] = "json"]
            /\ UNCHANGED resp
    /\ UNCHANGED <<apiKey, prompts, calls, result, builderVars, clientVars>>

\* Lines 55-84: req.json() has settled; the body is validated, the prompt
\* is built and openai.images.generate is called and awaited.
JsonSettled(r) ==
    /\ pc[r] = "json"
    /\ IF ~body[r].json
       THEN /\ Return(r, InvalidRequestBody)
            /\ UNCHANGED <<prompts, calls>>
       ELSE LET v == body[r].value
                outcome == Validate(v)
            IN  CASE outcome = "throw" ->
                       /\ Return(r, Unexpected)
                       /\ UNCHANGED <<prompts, calls>>
                  [] outcome = "reject" ->
                       /\ Return(r, DescriptionRequired)
                       /\ UNCHANGED <<prompts, calls>>
                  [] outcome = "accept" ->
                       LET prompt == BuildPrompt(v)
                       IN  /\ prompts' = [prompts EXCEPT ![r] = Append(@, prompt)]
                           /\ calls' = [calls EXCEPT
                                          ![r] = Append(@, GenerateParams(prompt))]
                           /\ pc' = [pc EXCEPT ![r] = "generate"]
                           /\ UNCHANGED resp
    /\ UNCHANGED <<apiKey, body, result, builderVars, clientVars>>

\* Mutant: a thrown value is answered by calling the provider once more.
GenerateSettledRetry(r, o) ==
    /\ pc[r] = "generate"
    /\ result' = [result EXCEPT ![r] = Append(@, o)]
    /\ IF o.k # "response" /\ Len(calls[r]) < 2
       THEN /\ calls' = [calls EXCEPT ![r] = Append(@, calls[r][1])]
            /\ UNCHANGED <<pc, resp>>
       ELSE /\ Return(r, IF o.k = "response" THEN SuccessResponse(o)
                         ELSE OpenAIErrorResponse(o))
            /\ UNCHANGED calls
    /\ UNCHANGED <<apiKey, body, prompts, builderVars, clientVars>>

\* Mutant: a thrown value is answered by calling the provider again, each time.
GenerateSettledRetryForever(r, o) ==
    /\ pc[r] = "generate"
    /\ result' = [result EXCEPT ![r] = <<o>>]
    /\ IF o.k # "response"
       THEN UNCHANGED <<pc, resp>>
       ELSE Return(r, SuccessResponse(o))
    /\ UNCHANGED <<apiKey, body, prompts, calls, builderVars, clientVars>>

\* Lines 77-118: the call has settled with outcome o, a response or a
\* thrown value; the handler answers.
GenerateSettled(r, o) ==
    /\ pc[r] = "generate"
    /\ result' = [result EXCEPT ![r] = Append(@, o)]
    /\ Return(r, IF o.k = "response" THEN SuccessResponse(o)
                 ELSE OpenAIErrorResponse(o))
    /\ UNCHANGED <<apiKey, body, prompts, calls, builderVars, clientVars>>

Next ==
    \E r \in Reqs :
        \/ \E b \in Bodies : POST(r, b)
        \/ JsonSettled(r)
        \/ \E o \in Outcomes : GenerateSettled(r, o)

Spec == Init /\ [][Next]_vars

(***************************************************************************)
(* The handler under fairness: each of the two awaited operations of a     *)
(* request, req.json() and openai.images.generate, eventually settles.     *)
(***************************************************************************)
LiveReqs == 1..NumLiveReqs

NextLive ==
    \E r \in LiveReqs :
        \/ \E b \in Bodies : POST(r, b)
        \/ JsonSettled(r)
        \/ \E o \in Outcomes : GenerateSettled(r, o)

Fairness ==
    \A r \in LiveReqs :
        /\ WF_vars(JsonSettled(r))
        /\ WF_vars(\E o \in Outcomes : GenerateSettled(r, o))

SpecLive == Init /\ [][NextLive]_vars /\ Fairness

(***************************************************************************)
(* createPromptWithReference applied directly to bounded inputs            *)
(***************************************************************************)
InitBuild ==
    /\ apiKey = Undefined
    /\ pc = [r \in Reqs |-> "idle"]
    /\ body = [r \in Reqs |-> NoBody]
    /\ prompts = [r \in Reqs |-> <<>>]
    /\ calls = [r \in Reqs |-> <<>>]
    /\ result = [r \in Reqs |-> <<>>]
    /\ resp = [r \in Reqs |-> <<>>]
    /\ bArgs \in [description : BuilderDescriptions, hasReferenceImage : BOOLEAN]
    /\ bOut = <<>>
    /\ ClientIdle

Build ==
    /\ bOut = <<>>
    /\ bOut' = <<createPromptWithReference(bArgs.description,
                                           bArgs.hasReferenceImage)>>
    /\ UNCHANGED <<bArgs, handlerVars, clientVars>>

NextBuild == Build

SpecBuild == InitBuild /\ [][NextBuild]_vars

(***************************************************************************)
(* The client: Home (app/page.tsx).  Each event handler and each           *)
(* continuation after an await runs to completion, and React applies the   *)
(* state updates it made together.                                         *)
(***************************************************************************)
\* The list of designs as a JavaScript value.
Array(a) == [t |-> "array", a |-> a]

\* What fetch resolves to: `ok` is true for the statuses 200-299.
HttpResponse(status) ==
    [k |-> "http", status |-> status, ok |-> status \in 200..299]

Statuses == {200, 400, 429, 500}

\* `${response.status}`
StatusText(status) ==
    CASE status = 200 -> "200"
      [] status = 400 -> "400"
      [] status = 429 -> "429"
      [] status = 500 -> "500"

\* fetch resolves to a response or rejects with a thrown value.
FetchOutcomes ==
    {HttpResponse(s) : s \in Statuses} \cup {Error("Failed to fetch"), NonError}

\* response.json() rejects with a thrown value or resolves to a value.
Rejected(thrown) == [k |-> "rejected", thrown |-> thrown]

Parsed(v) == [k |-> "parsed", value |-> v]

\* A response object: a field the JSON text does not have reads as Undefined.
Payload(err, list) == [t |-> "object", error |-> err, designs |-> list]

Payloads ==
    {Payload(e, Undefined) :
        e \in {Undefined, Str(""), Str("Description is required")}}
    \cup {Payload(Undefined, Array(d)) : d \in DesignLists}

JsonOutcomes ==
    {Rejected(Error("Unexpected token < in JSON at position 0")),
     Rejected(NonError), Parsed(Null)}
    \cup {Parsed(p) : p \in Payloads}

ClientDescriptions == {"", "red dress"}

DataUrl == Str("data:image/png;base64,AAAA")

\* File sizes around the limit of line 17.
SizeLimit == 10 * 1024 * 1024

FileSizes == {0, SizeLimit, SizeLimit + 1}

\* The catch block, lines 65-68: the message shown for a thrown value.
ErrorMessage(thrown) ==
    IF thrown.k = "error" THEN thrown.message
    ELSE "An unexpected error occurred"

\* Mutant: only an absent designs field counts as no designs.
NoDesignsAbsentOnly(data) == data.designs.t = "undefined"

\* `!data.designs || data.designs.length === 0`, line 59.
NoDesigns(data) ==
    data.designs.t = "undefined" \/ Len(data.designs.a) = 0

\* Lines 52-63 once response.json() has settled with j: the list to show, as
\* <<"designs", list>>, or the value thrown, as <<"thrown", value>>.
Completion(response, j) ==
    IF j.k = "rejected" THEN <<"thrown", j.thrown>>
    ELSE IF j.value.t = "null"
    THEN <<"thrown", Error("Cannot read properties of null")>>
    ELSE IF ~response.ok
    THEN <<"thrown",
           Error(IF Truthy(j.value.error) THEN j.value.error.s
                 ELSE "HTTP error! status: " \o StatusText(response.status))>>
    ELSE IF NoDesigns(j.value)
    THEN <<"thrown", Error("No designs were generated")>>
    ELSE <<"designs", j.value.designs>>

\* An image-upload event is noted when a submission is running.
NoteUpload == dirty' = (dirty \/ loading)

\* Line 96: the description is edited.
ChangeDescription(d) ==
    /\ designDescription # d
    /\ designDescription' = d
    /\ UNCHANGED <<referenceImage, loading, designs, error, fetchPc, httpResp,
                   sent, readers, dirty, handlerVars, builderVars>>

\* Line 168: the image is removed; the button shows while there is an image.
RemoveImage ==
    /\ Truthy(referenceImage)
    /\ referenceImage' = Null
    /\ UNCHANGED <<designDescription, loading, designs, error, fetchPc,
                   httpResp, sent, readers, dirty, handlerVars, builderVars>>

\* Lines 14-32, handleImageUpload for a chosen file of the given size: too
\* large a file sets the error, any other starts a FileReader.
handleImageUpload(size) ==
    /\ IF size > SizeLimit
       THEN /\ error' = Str("File size too large. Please upload an image under 10MB.")
            /\ UNCHANGED readers
       ELSE /\ readers < MaxReaders
            /\ readers' = readers + 1
            /\ UNCHANGED error
    /\ NoteUpload
    /\ UNCHANGED <<designDescription, referenceImage, loading, designs,
                   fetchPc, httpResp, sent, handlerVars, builderVars>>

\* Lines 23-26: a read ends well and onloadend stores the data URL.
ReaderLoaded ==
    /\ readers > 0
    /\ readers' = readers - 1
    /\ referenceImage' = DataUrl
    /\ error' = Null
    /\ NoteUpload
    /\ UNCHANGED <<designDescription, loading, designs, fetchPc, httpResp,
                   sent, handlerVars, builderVars>>

\* Lines 23-29: a read fails. The reader fires error and then loadend in one
\* task: onerror sets the message, onloadend stores reader.result, which is
\* null, and clears the message again.
ReaderFailed ==
    /\ readers > 0
    /\ readers' = readers - 1
    /\ referenceImage' = Null
    /\ error' = Null
    /\ NoteUpload
    /\ UNCHANGED <<designDescription, loading, designs, fetchPc, httpResp,
                   sent, handlerVars, builderVars>>

\* Lines 34-50, handleSubmit up to `await fetch`; the submit button is
\* disabled while loading (line 181).
Submit ==
    /\ ~loading
    /\ loading' = TRUE
    /\ error' = Null
    /\ designs' = Null
    /\ sent' = <<[description |-> designDescription,
                  referenceImage |-> referenceImage]>>
    /\ httpResp' = <<>>
    /\ fetchPc' = "fetch"
    /\ dirty' = FALSE
    /\ UNCHANGED <<designDescription, referenceImage, readers, handlerVars,
                   builderVars>>

\* Lines 63 and 69-71: the designs are shown and loading ends.
Succeed(list) ==
    /\ designs' = list
    /\ loading' = FALSE
    /\ fetchPc' = "idle"
    /\ UNCHANGED error

\* Mutant: loading is reset on the success path only, not in a finally.
FailNoFinally(thrown) ==
    /\ error' = Str(ErrorMessage(thrown))
    /\ fetchPc' = "idle"
    /\ UNCHANGED <<designs, loading>>

\* Lines 65-71: the message of the thrown value is shown and loading ends.
Fail(thrown) ==
    /\ error' = Str(ErrorMessage(thrown))
    /\ loading' = FALSE
    /\ fetchPc' = "idle"
    /\ UNCHANGED designs

\* Lines 41-53: fetch has settled with o; a response's body is read next.
FetchSettled(o) ==
    /\ fetchPc = "fetch"
    /\ IF o.k = "http"
       THEN /\ httpResp' = <<o>>
            /\ fetchPc' = "json"
            /\ UNCHANGED <<loading, designs, error>>
       ELSE /\ Fail(o)
            /\ UNCHANGED httpResp
    /\ UNCHANGED <<designDescription, referenceImage, sent, readers, dirty,
                   handlerVars, builderVars>>

\* Lines 52-71: response.json() has settled with j.
BodySettled(j) ==
    /\ fetchPc = "json"
    /\ LET c == Completion(httpResp[1], j)
       IN  IF c[1] = "designs" THEN Succeed(c[2]) ELSE Fail(c[2])
    /\ UNCHANGED <<designDescription, referenceImage, httpResp, sent, readers,
                   dirty, handlerVars, builderVars>>

InitClient ==
    /\ apiKey = Undefined
    /\ pc = [r \in Reqs |-> "idle"]
    /\ body = [r \in Reqs |-> NoBody]
    /\ prompts = [r \in Reqs |-> <<>>]
    /\ calls = [r \in Reqs |-> <<>>]
    /\ result = [r \in Reqs |-> <<>>]
    /\ resp = [r \in Reqs |-> <<>>]
    /\ bArgs = NoArgs
    /\ bOut = <<>>
    /\ ClientIdle

NextClient ==
    \/ \E d \in ClientDescriptions : ChangeDescription(d)
    \/ RemoveImage
    \/ \E size \in FileSizes : handleImageUpload(size)
    \/ ReaderLoaded
    \/ ReaderFailed
    \/ Submit
    \/ \E o \in FetchOutcomes : FetchSettled(o)
    \/ \E j \in JsonOutcomes : BodySettled(j)

\* A fetch that was started settles, and so does the read of a response body.
ClientFairness ==
    /\ WF_vars(\E o \in FetchOutcomes : FetchSettled(o))
    /\ WF_vars(\E j \in JsonOutcomes : BodySettled(j))

SpecClient == InitClient /\ [][NextClient]_vars /\ ClientFairness

(***************************************************************************)
(* Claims                                                                  *)
(***************************************************************************)
\* The credential is configured: the variable is set to a non-empty string.
CredentialPresent == apiKey.t = "string" /\ Len(apiKey.s) > 0

\* s ends with suffix.
EndsWith(s, suffix) ==
    /\ Len(s) >= Len(suffix)
    /\ SubSeq(s, Len(s) - Len(suffix) + 1, Len(s)) = suffix

\* Every character of s is white space (so is the empty string).
OnlyWhiteSpace(s) == \A i \in 1..Len(s) : SubSeq(s, i, i) \in WhiteSpace

\* Request r's body parsed to a value that is not null and whose description
\* is missing, the empty string or white space only.
BlankDescription(r) ==
    /\ pc[r] # "idle"
    /\ body[r].json
    /\ body[r].value.t # "null"
    /\ LET d == Description(body[r].value)
       IN  \/ d.t = "undefined"
           \/ d.t = "string" /\ OnlyWhiteSpace(d.s)

ErrorResponse(status, message) == [status |-> status, json |-> [error |-> message]]

\* The provider call of request r has settled, with outcome Settled(r).
HasSettled(r) == Len(result[r]) > 0

Settled(r) == result[r][1]

\* C1: with the credential present, a request whose parsed body has a missing,
\* empty or white-space-only description never has a prompt built or the
\* provider called, whatever its referenceImage, and its response is status
\* 400 with 'Description is required'.
C1_BlankDescriptionRejected ==
    \A r \in Reqs :
        (CredentialPresent /\ BlankDescription(r)) =>
            /\ prompts[r] = <<>>
            /\ calls[r] = <<>>
            /\ result[r] = <<>>
            /\ pc[r] \in {"json", "done"}
            /\ pc[r] = "done" =>
                   resp[r] = <<ErrorResponse(400, "Description is required")>>

C1_Witness ==
    \E r \in Reqs :
        /\ CredentialPresent
        /\ BlankDescription(r)
        /\ body[r].value.t = "object"
        /\ body[r].value.description = Str(" \t\n")
        /\ Truthy(body[r].value.referenceImage)
        /\ pc[r] = "done"

\* C2: when the credential is absent (unset or empty), every request, whatever
\* its body, ends at once with status 500 and the key-not-configured message;
\* its body is never parsed and the provider is never called.
C2_MissingKeyShortCircuits ==
    \A r \in Reqs :
        (~CredentialPresent /\ pc[r] # "idle") =>
            /\ pc[r] = "done"
            /\ resp[r] = <<ErrorResponse(500,
                   "OpenAI API key not configured in Replit secrets")>>
            /\ prompts[r] = <<>>
            /\ calls[r] = <<>>
            /\ result[r] = <<>>

C2_Witness ==
    \E r, q \in Reqs :
        /\ ~CredentialPresent
        /\ pc[r] = "done" /\ body[r] = NotJson
        /\ pc[q] = "done" /\ BlankDescription(q)

\* C3: with the credential present, a request whose body req.json() cannot
\* parse never has the provider called and is answered with status 400 and
\* 'Invalid request body'.
C3_UnparsableBodyRejected ==
    \A r \in Reqs :
        (CredentialPresent /\ pc[r] # "idle" /\ ~body[r].json) =>
            /\ prompts[r] = <<>>
            /\ calls[r] = <<>>
            /\ result[r] = <<>>
            /\ pc[r] \in {"json", "done"}
            /\ pc[r] = "done" =>
                   resp[r] = <<ErrorResponse(400, "Invalid request body")>>

C3_Witness ==
    \E r \in Reqs : CredentialPresent /\ pc[r] = "done" /\ body[r] = NotJson

\* C4: a request calls the provider at most once; once the call has settled,
\* by a thrown value or by a response with or without images, the request
\* is done with one call made and one response returned.
C4_AtMostOneProviderCall ==
    \A r \in Reqs :
        /\ Len(calls[r]) <= 1
        /\ Len(result[r]) <= Len(calls[r])
        /\ HasSettled(r) =>
               /\ pc[r] = "done"
               /\ Len(calls[r]) = 1
               /\ Len(resp[r]) = 1

C4_Witness ==
    \E r, q \in Reqs :
        /\ HasSettled(r) /\ Settled(r).k = "error" /\ pc[r] = "done"
        /\ HasSettled(q) /\ Settled(q).k = "response" /\ Settled(q).data = <<>>
        /\ pc[q] = "done"

\* A response is all-or-nothing: a success with a non-empty designs list
\* and no error, or a non-success status with an error message and no designs.
AllOrNothing(x) ==
    \/ /\ x.status \in 200..299
       /\ DOMAIN x.json = {"designs"}
       /\ Len(x.json.designs) >= 1
    \/ /\ x.status \notin 200..299
       /\ DOMAIN x.json = {"error"}
       /\ Len(x.json.error) > 0

\* C5: a request never has more than one response, has exactly one when its
\* invocation has ended, and every response is all-or-nothing.
C5_OneAllOrNothingResponse ==
    \A r \in Reqs :
        /\ Len(resp[r]) = (IF pc[r] = "done" THEN 1 ELSE 0)
        /\ \A i \in 1..Len(resp[r]) : AllOrNothing(resp[r][i])

C5_Witness ==
    \E r, q \in Reqs :
        /\ pc[r] = "done" /\ resp[r][1].status = 200
        /\ pc[q] = "done" /\ HasSettled(q) /\ Settled(q).k = "response"
        /\ Len(Settled(q).data) = 0

\* C6: when the provider call resolves with a non-empty list, the response is
\* status 200 with designs equal to that list: same length, order and
\* elements, each with its url and its revised_prompt if it has one.
C6_DesignsPassThrough ==
    \A r \in Reqs :
        (/\ HasSettled(r)
         /\ Settled(r).k = "response"
         /\ Settled(r).hasData
         /\ Len(Settled(r).data) >= 1) =>
            resp[r] = <<[status |-> 200, json |-> [designs |-> Settled(r).data]]>>

C6_Witness ==
    \E r \in Reqs :
        /\ HasSettled(r)
        /\ Settled(r).k = "response"
        /\ Len(Settled(r).data) >= 2
        /\ Settled(r).data[1] # Settled(r).data[2]
        /\ pc[r] = "done"

\* Request r's provider call threw an Error whose message contains sub.
FailedWith(r, sub) ==
    /\ HasSettled(r)
    /\ Settled(r).k = "error"
    /\ Includes(Settled(r).message, sub)

\* C7: when the provider call fails with an error whose message contains
\* "rate limit", the response is status 429 with the rate-limit message.
C7_RateLimitIs429 ==
    \A r \in Reqs :
        FailedWith(r, "rate limit") =>
            resp[r] = <<ErrorResponse(429,
                   "Rate limit exceeded. Please try again later.")>>

C7_Witness ==
    \E r, q \in Reqs :
        /\ FailedWith(r, "rate limit") /\ ~FailedWith(r, "content policy")
        /\ FailedWith(q, "rate limit") /\ FailedWith(q, "content policy")

\* C8 as stated: when the provider call fails with an error whose message
\* contains "content policy", the response is status 400 with the
\* content-policy message.
C8_Original ==
    \A r \in Reqs :
        FailedWith(r, "content policy") =>
            resp[r] = <<ErrorResponse(400,
                   "Content policy violation. Please modify your request.")>>

\* C8: when the provider call fails with an error whose message contains
\* "content policy" and does not contain "rate limit", the response is status
\* 400 with the content-policy message.
C8_ContentPolicyIs400 ==
    \A r \in Reqs :
        (FailedWith(r, "content policy") /\ ~FailedWith(r, "rate limit")) =>
            resp[r] = <<ErrorResponse(400,
                   "Content policy violation. Please modify your request.")>>

C8_Witness ==
    \E r \in Reqs :
        /\ FailedWith(r, "content policy")
        /\ ~FailedWith(r, "rate limit")
        /\ pc[r] = "done"

\* Request r's provider call resolved with no results: data absent or empty.
ZeroResults(r) ==
    /\ HasSettled(r)
    /\ Settled(r).k = "response"
    /\ (~Settled(r).hasData \/ Settled(r).data = <<>>)

\* C9 as stated: when the provider call resolves with zero results, the
\* response is a server error carrying the message 'No images generated'.
C9_Original ==
    \A r \in Reqs :
        ZeroResults(r) =>
            resp[r] = <<ErrorResponse(500, "No images generated")>>

\* C9: when the provider call resolves with zero results (data absent or an
\* empty list), the response is status 500 with the same message as any other
\* provider failure, 'Error generating image with OpenAI'.
C9_ZeroResultsIsProviderError ==
    \A r \in Reqs :
        ZeroResults(r) =>
            resp[r] = <<ErrorResponse(500, "Error generating image with OpenAI")>>

C9_Witness ==
    \E r, q \in Reqs :
        /\ ZeroResults(r) /\ ~Settled(r).hasData /\ pc[r] = "done"
        /\ ZeroResults(q) /\ Settled(q).hasData /\ pc[q] = "done"

\* C10: for every non-empty description and either flag, the string
\* createPromptWithReference returns is non-empty, contains the description
\* verbatim as a contiguous substring and ends with the photography block.
C10_PromptContainsDescription ==
    (Len(bOut) > 0 /\ Len(bArgs.description) > 0) =>
        /\ Len(bOut[1]) > 0
        /\ Includes(bOut[1], bArgs.description)
        /\ EndsWith(bOut[1], PhotographyBlock)

C10_Witness ==
    /\ Len(bOut) > 0
    /\ bArgs.hasReferenceImage
    /\ bArgs.description = " z\n"


\* C11 as stated: for every non-empty description, the prompt built with the
\* flag set contains the reference block and the prompt built with the flag
\* clear does not contain it.
C11_Original ==
    (Len(bOut) > 0 /\ Len(bArgs.description) > 0) =>
        (Includes(bOut[1], ReferenceBlock) <=> bArgs.hasReferenceImage)

\* C11: for every non-empty description, the prompt built with the flag set
\* contains the reference block, and the prompt built with the flag clear
\* does not contain it provided the description does not itself contain it.
C11_ReferenceBlockFollowsFlag ==
    (Len(bOut) > 0 /\ Len(bArgs.description) > 0) =>
        /\ bArgs.hasReferenceImage => Includes(bOut[1], ReferenceBlock)
        /\ (~bArgs.hasReferenceImage
              /\ ~Includes(bArgs.description, ReferenceBlock)) =>
               ~Includes(bOut[1], ReferenceBlock)

C11_Witness ==
    /\ Len(bOut) > 0
    /\ ~bArgs.hasReferenceImage
    /\ bArgs.description = SubSeq(ReferenceBlock, 1, Len(ReferenceBlock) - 1)


\* Request r reached prompt construction.
BuiltPrompt(r) == Len(prompts[r]) > 0

\* C12 as stated: for every request that reaches prompt construction, the
\* prompt is the one built with the flag true exactly when referenceImage is
\* not null, an empty string included.
C12_Original ==
    \A r \in Reqs :
        BuiltPrompt(r) =>
            prompts[r][1] =
                createPromptWithReference(
                    Description(body[r].value).s,
                    ReferenceImage(body[r].value).t # "null")

\* C12: for every request that reaches prompt construction, the prompt built
\* and sent to the provider is the one built with the flag true exactly when
\* referenceImage is a non-empty string; null and the empty string give the
\* prompt without the reference block.
C12_FlagIsTruthiness ==
    \A r \in Reqs :
        BuiltPrompt(r) =>
            LET i == ReferenceImage(body[r].value)
                present == i.t = "string" /\ Len(i.s) > 0
                d == Description(body[r].value).s
            IN  /\ prompts[r][1] = createPromptWithReference(d, present)
                /\ prompts[r][1] # createPromptWithReference(d, ~present)
                /\ calls[r][1].prompt = prompts[r][1]

C12_Witness ==
    \E r, q \in Reqs :
        /\ BuiltPrompt(r) /\ ReferenceImage(body[r].value) = Str("")
        /\ BuiltPrompt(q) /\ Truthy(ReferenceImage(body[q].value))


\* Everything the handler holds for request r.
Local(r) == <<pc[r], body[r], prompts[r], calls[r], result[r], resp[r]>>

\* What POST answers to body b under the credential when the provider call,
\* if one is made, settles with the outcomes res: the handler run alone.
Alone(b, res) ==
    IF KeyMissing THEN ConfigurationMissing
    ELSE IF ~b.json THEN InvalidRequestBody
    ELSE IF Validate(b.value) = "throw" THEN Unexpected
    ELSE IF Validate(b.value) = "reject" THEN DescriptionRequired
    ELSE IF res[1].k = "response" THEN SuccessResponse(res[1])
    ELSE OpenAIErrorResponse(res[1])

\* The prompts POST builds for body b run alone.
AlonePrompts(b) ==
    IF ~KeyMissing /\ b.json /\ Validate(b.value) = "accept"
    THEN <<BuildPrompt(b.value)>>
    ELSE <<>>

\* C13: under every interleaving of the requests' steps, a finished request's
\* response and prompt are those its own body, the credential and its own
\* provider outcome give when it runs alone; a step of one request changes
\* nothing another request holds; and no step writes the credential.
C13_RequestsIndependent ==
    /\ [](\A r \in Reqs :
            pc[r] = "done" =>
                /\ resp[r] = <<Alone(body[r], result[r])>>
                /\ prompts[r] = AlonePrompts(body[r]))
    /\ [][/\ apiKey' = apiKey
          /\ \A r, q \in Reqs :
                (r # q /\ Local(r)' # Local(r)) => Local(q)' = Local(q)]_vars

C13_Witness ==
    \E r, q \in Reqs :
        /\ r # q
        /\ pc[r] = "generate" /\ pc[q] = "done" /\ HasSettled(q)
        /\ body[r] # body[q]


\* Request r's body does not deserialize to a DesignSubmission-shaped value:
\* it is not JSON, or not an object, or its description is present and not
\* a string.
Malformed(r) ==
    /\ pc[r] # "idle"
    /\ \/ ~body[r].json
       \/ body[r].value.t # "object"
       \/ body[r].value.description.t \notin {"undefined", "string"}

\* C14: with the credential present, every request whose body does not
\* deserialize to a DesignSubmission-shaped value, JSON null and a numeric
\* description included, is answered with status 400, never a server error.
C14_MalformedBodyIs400 ==
    \A r \in Reqs :
        (CredentialPresent /\ Malformed(r) /\ pc[r] = "done") =>
            /\ Len(resp[r]) = 1
            /\ resp[r][1].status = 400


\* Request r's provider call threw a value the handler does not classify: an
\* Error whose message has neither substring, or a value that is no Error.
Unclassified(r) ==
    /\ HasSettled(r)
    /\ \/ Settled(r).k = "nonerror"
       \/ /\ Settled(r).k = "error"
          /\ ~Includes(Settled(r).message, "rate limit")
          /\ ~Includes(Settled(r).message, "content policy")

\* C15: a provider failure that is not classified as rate limit or content
\* policy is answered with status 500 and 'Error generating image with
\* OpenAI'; and once the provider has been called, 'An unexpected error
\* occurred' is never the response.
C15_OtherFailureIsProviderError ==
    \A r \in Reqs :
        /\ Unclassified(r) =>
               resp[r] = <<ErrorResponse(500, "Error generating image with OpenAI")>>
        /\ Len(calls[r]) > 0 =>
               \A i \in 1..Len(resp[r]) :
                   resp[r][i] # ErrorResponse(500, "An unexpected error occurred")

C15_Witness ==
    \E r, q \in Reqs :
        /\ Unclassified(r) /\ Settled(r).k = "nonerror" /\ pc[r] = "done"
        /\ Unclassified(q) /\ Settled(q).k = "error" /\ pc[q] = "done"

\* C17: two requests with the same description and two different reference
\* images, both present (non-empty strings), have identical prompts and
\* identical provider call parameters: model, n = 1, size, quality, style.
C17_ImageContentUnused ==
    \A r, q \in Reqs :
        (/\ Len(calls[r]) > 0 /\ Len(calls[q]) > 0
         /\ Description(body[r].value) = Description(body[q].value)
         /\ ReferenceImage(body[r].value).t = "string"
         /\ ReferenceImage(body[q].value).t = "string"
         /\ Len(ReferenceImage(body[r].value).s) > 0
         /\ Len(ReferenceImage(body[q].value).s) > 0) =>
            /\ prompts[r] = prompts[q]
            /\ calls[r] = calls[q]
            /\ calls[r][1] = [model |-> "dall-e-3", prompt |-> prompts[r][1],
                              n |-> 1, size |-> "1024x1024", quality |-> "hd",
                              style |-> "natural"]

C17_Witness ==
    \E r, q \in Reqs :
        /\ Len(calls[r]) > 0 /\ Len(calls[q]) > 0
        /\ Description(body[r].value) = Description(body[q].value)
        /\ Truthy(ReferenceImage(body[r].value))
        /\ Truthy(ReferenceImage(body[q].value))
        /\ ReferenceImage(body[r].value) # ReferenceImage(body[q].value)

\* Request r's provider call threw.
Failed(r) == HasSettled(r) /\ Settled(r).k \in {"error", "nonerror"}

\* C18: a provider failure whose message contains both "rate limit" and
\* "content policy" is answered 429, never the content-policy 400; and every
\* provider failure is answered with exactly one of the three outcomes 429,
\* content-policy 400 and provider-error 500.
C18_ClassificationOrdered ==
    \A r \in Reqs :
        /\ (FailedWith(r, "rate limit") /\ FailedWith(r, "content policy")) =>
               /\ Len(resp[r]) = 1
               /\ resp[r][1].status = 429
        /\ Failed(r) =>
               /\ Len(resp[r]) = 1
               /\ resp[r][1] \in
                      {ErrorResponse(429, "Rate limit exceeded. Please try again later."),
                       ErrorResponse(400, "Content policy violation. Please modify your request."),
                       ErrorResponse(500, "Error generating image with OpenAI")}

C18_Witness ==
    \E r \in Reqs :
        /\ FailedWith(r, "rate limit")
        /\ FailedWith(r, "content policy")
        /\ pc[r] = "done"


\* C16 as stated, its last part: a request that POST has taken up and not yet
\* answered is waiting for the provider call, the only point where it waits.
C16_Original ==
    \A r \in LiveReqs : pc[r] \notin {"idle", "done"} => pc[r] = "generate"

\* C16: if the read of the request body and the provider call, once started,
\* eventually settle, every request POST has taken up is eventually answered;
\* until then it is waiting at one of those two awaits and nowhere else.
C16_EventuallyResponds ==
    /\ \A r \in LiveReqs : (pc[r] # "idle") ~> (pc[r] = "done" /\ Len(resp[r]) = 1)
    /\ [](\A r \in LiveReqs :
            pc[r] \notin {"idle", "done"} =>
                \/ pc[r] = "json" /\ calls[r] = <<>>
                \/ pc[r] = "generate" /\ Len(calls[r]) = 1 /\ result[r] = <<>>)

C16_Witness ==
    \E r \in LiveReqs : pc[r] = "done" /\ HasSettled(r)


\* C19: every submission eventually sets loading back to false, whatever the
\* outcome; and when no image-upload event occurred since the submission
\* started, exactly one of designs and error is non-null at the step that
\* sets loading back to false.
C19_LoadingEndsWithOneResult ==
    /\ loading ~> ~loading
    /\ [][(loading /\ ~loading' /\ ~dirty') =>
             ((designs'.t # "null") # (error'.t # "null"))]_vars

C19_Witness ==
    /\ ~loading
    /\ ~dirty
    /\ fetchPc = "idle"
    /\ Len(httpResp) = 1 /\ httpResp[1].ok
    /\ error = Str("Unexpected token < in JSON at position 0")
    /\ designs = Null

\* C20: designs is always null or a non-empty list, a success response with
\* an empty list being turned into the error 'No designs were generated'; and
\* designs is null whenever loading is true, submissions starting only while
\* loading is false, as the disabled submit button ensures.
C20_DesignsNullOrNonEmpty ==
    /\ designs.t = "null" \/ (designs.t = "array" /\ Len(designs.a) >= 1)
    /\ loading => designs.t = "null"
    /\ loading <=> fetchPc # "idle"

C20_Witness ==
    /\ ~loading
    /\ Len(httpResp) = 1 /\ httpResp[1].ok
    /\ error = Str("No designs were generated")
    /\ designs = Null

====
